---- MODULE Spec2Model ----
(***************************************************************************)
(* A model of the BIM peer-review ETL pipeline: the spreadsheet loader and *)
(* central-document reconciler of etl/load_local.py, the three resolvers   *)
(* of etl/transformations.py and the load callback of app.py.              *)
(*                                                                         *)
(* Values.  A cell of a data frame is an optional value: Null (pandas NaN) *)
(* is the empty tuple and a present value v is the one-element tuple <<v>>.*)
(* Text is a TLA+ string, a number an integer.  A table is a sequence of   *)
(* rows (records); the row order is the data frame's row order.            *)
(***************************************************************************)
EXTENDS Integers, Sequences, FiniteSets, TLC

VARIABLES
    pc,                             \* position inside load_and_process_data / process_data
    request,                        \* the callback's arguments: n_clicks, vp_file_path, central_doc_path, sheet_name
    vp_file,                        \* the workbook behind vp_file_path
    central_file,                   \* the sheet of the workbook behind central_doc_path
    vp_entities,                    \* local of the callback: raw entity table
    vp_attributes,                  \* local of the callback: raw attribute table
    vp_relationships,               \* local of the callback: raw relationship table
    central_doc_object_labels,      \* local of the callback: reconciled object labels
    central_doc_attribute_labels,   \* local of the callback: reconciled attribute labels
    processed_entities,             \* process_data: result of process_vp_entities
    processed_attributes,           \* process_data: result of process_vp_attributes
    processed_relationships,        \* process_data: result of process_vp_relationships
    diagram,                        \* local of the callback: the diagram component
    qa_checks,                      \* local of the callback: the QA component
    outputs,                        \* the tuple the callback returned
    raised,                         \* the exception a stage raised ("" when none)
    ran,                            \* the stages entered so far, in order
    pandas_apply_empty,             \* what DataFrame.apply(axis=1) returns on a frame without rows in the installed pandas
    previous                        \* the tables the preceding run of the callback computed (Null in the first run)

vars == <<pc, request, vp_file, central_file, vp_entities, vp_attributes,
          vp_relationships, central_doc_object_labels,
          central_doc_attribute_labels, processed_entities,
          processed_attributes, processed_relationships, diagram, qa_checks,
          outputs, raised, ran, pandas_apply_empty, previous>>

---------------------------------------------------------------------------
(* Optional values and text                                                *)

Null == <<>>

Some(v) == <<v>>

IsNull(c) == c = Null

Val(c) == c[1]

\* The characters of the model's texts in code-point order (str comparison
\* in Python compares code points).
CodePoints ==
    <<" ", ",", "-", "0", "1", "2", "3", "4", "5", "6", "7", "8", "9",
      "A", "B", "C", "D", "E", "F", "G", "H", "I", "J", "K", "L", "M",
      "N", "O", "P", "Q", "R", "S", "T", "U", "V", "W", "X", "Y", "Z",
      "a", "b", "c", "d", "e", "f", "g", "h", "i", "j", "k", "l", "m",
      "n", "o", "p", "q", "r", "s", "t", "u", "v", "w", "x", "y", "z">>

CharAt(s, i) == SubSeq(s, i, i)

Ord(c) == CHOOSE i \in 1..Len(CodePoints) : CodePoints[i] = c

RECURSIVE StrLessFrom(_, _, _)
StrLessFrom(a, b, i) ==
    IF i > Len(b) THEN FALSE
    ELSE IF i > Len(a) THEN TRUE
    ELSE IF CharAt(a, i) = CharAt(b, i) THEN StrLessFrom(a, b, i + 1)
    ELSE Ord(CharAt(a, i)) < Ord(CharAt(b, i))

\* a < b on Python str
StrLess(a, b) == StrLessFrom(a, b, 1)

\* str.startswith
StartsWith(s, prefix) ==
    /\ Len(s) >= Len(prefix)
    /\ SubSeq(s, 1, Len(prefix)) = prefix

\* Series.astype(str) on an object column: NaN becomes the text "nan"
AsTypeStr(c) == IF IsNull(c) THEN "nan" ELSE Val(c)

RECURSIVE StrJoin(_, _)
\* sep.join(items) for a sequence of texts
StrJoin(sep, items) ==
    IF Len(items) = 0 THEN ""
    ELSE IF Len(items) = 1 THEN items[1]
    ELSE items[1] \o sep \o StrJoin(sep, Tail(items))

---------------------------------------------------------------------------
(* Generic data-frame operations                                           *)

RECURSIVE DropDuplicates(_)
\* DataFrame.drop_duplicates / Series.unique: keep the first occurrence of
\* every value, in order (NaN counts as equal to NaN)
DropDuplicates(rows) ==
    IF rows = <<>> THEN <<>>
    ELSE LET init == DropDuplicates(SubSeq(rows, 1, Len(rows) - 1))
             last == rows[Len(rows)]
         IN  IF \E i \in 1..Len(init) : init[i] = last THEN init
             ELSE Append(init, last)

Range(seq) == {seq[i] : i \in 1..Len(seq)}

RECURSIVE SortedTexts(_)
\* the texts of a finite set in ascending order
SortedTexts(S) ==
    IF S = {} THEN <<>>
    ELSE LET least == CHOOSE a \in S : \A b \in S \ {a} : StrLess(a, b)
         IN  <<least>> \o SortedTexts(S \ {least})

---------------------------------------------------------------------------
(* etl/load_local.py: load_central_doc                                     *)

\* object_labels[["BIM Object", "Source System"]]
ProjectObject(rows) ==
    [i \in 1..Len(rows) |->
        [key |-> rows[i].BIM_Object, Source_System |-> rows[i].Source_System]]

\* attribute_labels[["BIM Attribute", "Source System"]]
ProjectAttribute(rows) ==
    [i \in 1..Len(rows) |->
        [key |-> rows[i].BIM_Attribute, Source_System |-> rows[i].Source_System]]

\* whether part occurs anywhere in text (str.contains)
Contains(text, part) ==
    \E j \in 1..(Len(text) - Len(part) + 1) : SubSeq(text, j, j + Len(part) - 1) = part

\* a variant of the filter that drops every key containing "skip"
FilterSkipAnywhere(rows) ==
    LET Keep(r) == ~Contains(AsTypeStr(r.key), "skip")
    IN  SelectSeq(rows, Keep)

\* df[~df[key].astype(str).str.startswith("skip")]
FilterSkip(rows) ==
    LET Keep(r) == ~StartsWith(AsTypeStr(r.key), "skip")
    IN  SelectSeq(rows, Keep)

\* the group of one key: its Source System column, in row order
GroupOf(rows, k) ==
    LET InGroup(r) == r.key = Some(k)
        members == SelectSeq(rows, InGroup)
    IN  [i \in 1..Len(members) |-> members[i].Source_System]

\* groupby(key): the group keys, sorted ascending; rows with a NaN key
\* belong to no group (dropna=True is the default)
GroupKeys(rows) ==
    SortedTexts({Val(rows[i].key) : i \in {j \in 1..Len(rows) : ~IsNull(rows[j].key)}})

\* lambda x: ", ".join(x.unique()) raises TypeError when an item is not a
\* str; a NaN Source System is a float
JoinRaises(rows) ==
    \E i \in 1..Len(rows) : ~IsNull(rows[i].key) /\ IsNull(rows[i].Source_System)

\* a variant of the join that lists the systems in alphabetical order
JoinSortedUnique(systems) ==
    StrJoin(", ", SortedTexts({Val(systems[i]) : i \in 1..Len(systems)}))

\* lambda x: ", ".join(x.unique())
JoinUnique(systems) ==
    LET u == DropDuplicates(systems)
    IN  StrJoin(", ", [i \in 1..Len(u) |-> Val(u[i])])

\* groupby(key)["Source System"].apply(...).reset_index(), renamed to System
GroupSystems(rows) ==
    LET keys == GroupKeys(rows)
    IN  [i \in 1..Len(keys) |->
            [key |-> Some(keys[i]), System |-> Some(JoinUnique(GroupOf(rows, keys[i])))]]

\* lines 102-113 and 122-133: filter, de-duplicate, group, de-duplicate
ReconcileLabels(projected) ==
    DropDuplicates(GroupSystems(DropDuplicates(FilterSkip(projected))))

NoTables == [object_labels |-> Null, attribute_labels |-> Null]

Raised(kind) == [raised |-> kind] @@ NoTables

\* a variant of load_central_doc that returns what it has reconciled when
\* the attribute column is absent
load_central_doc_lenient(sheet) ==
    IF IsNull(sheet) THEN Raised("ValueError: Error loading sheet")
    ELSE LET central_doc == Val(sheet)
             object_labels == ProjectObject(central_doc.rows)
             attribute_labels == ProjectAttribute(central_doc.rows)
         IN  IF ~({"BIM Object", "Source System"} \subseteq central_doc.columns)
             THEN Raised("ValueError: Required columns 'BIM Object' and 'Source System' not found")
             ELSE IF JoinRaises(DropDuplicates(FilterSkip(object_labels)))
             THEN Raised("TypeError: sequence item: expected str instance, float found")
             ELSE IF "BIM Attribute" \notin central_doc.columns
             THEN [raised |-> "",
                   object_labels |-> Some(ReconcileLabels(object_labels)),
                   attribute_labels |-> Some(<<>>)]
             ELSE IF JoinRaises(DropDuplicates(FilterSkip(attribute_labels)))
             THEN Raised("TypeError: sequence item: expected str instance, float found")
             ELSE [raised |-> "",
                   object_labels |-> Some(ReconcileLabels(object_labels)),
                   attribute_labels |-> Some(ReconcileLabels(attribute_labels))]

\* a variant of load_central_doc whose attribute reconciliation starts from
\* the rows the object filter has kept
load_central_doc_chained(sheet) ==
    IF IsNull(sheet) THEN Raised("ValueError: Error loading sheet")
    ELSE LET central_doc == Val(sheet)
             KeepObject(row) == ~StartsWith(AsTypeStr(row.BIM_Object), "skip")
             object_labels == ProjectObject(central_doc.rows)
             attribute_labels == ProjectAttribute(SelectSeq(central_doc.rows, KeepObject))
         IN  IF ~({"BIM Object", "Source System"} \subseteq central_doc.columns)
             THEN Raised("ValueError: Required columns 'BIM Object' and 'Source System' not found")
             ELSE IF JoinRaises(DropDuplicates(FilterSkip(object_labels)))
             THEN Raised("TypeError: sequence item: expected str instance, float found")
             ELSE IF "BIM Attribute" \notin central_doc.columns
             THEN Raised("ValueError: Required column 'BIM Attribute' not found")
             ELSE IF JoinRaises(DropDuplicates(FilterSkip(attribute_labels)))
             THEN Raised("TypeError: sequence item: expected str instance, float found")
             ELSE [raised |-> "",
                   object_labels |-> Some(ReconcileLabels(object_labels)),
                   attribute_labels |-> Some(ReconcileLabels(attribute_labels))]

\* load_central_doc(central_doc_path, sheet_name): the sheet is Null when
\* pd.read_excel raises (no such file or sheet)
load_central_doc(sheet) ==
    IF IsNull(sheet) THEN Raised("ValueError: Error loading sheet")
    ELSE LET central_doc == Val(sheet)
             object_labels == ProjectObject(central_doc.rows)
             attribute_labels == ProjectAttribute(central_doc.rows)
         IN  IF ~({"BIM Object", "Source System"} \subseteq central_doc.columns)
             THEN Raised("ValueError: Required columns 'BIM Object' and 'Source System' not found")
             ELSE IF JoinRaises(DropDuplicates(FilterSkip(object_labels)))
             THEN Raised("TypeError: sequence item: expected str instance, float found")
             ELSE IF "BIM Attribute" \notin central_doc.columns
             THEN Raised("ValueError: Required column 'BIM Attribute' not found")
             ELSE IF JoinRaises(DropDuplicates(FilterSkip(attribute_labels)))
             THEN Raised("TypeError: sequence item: expected str instance, float found")
             ELSE [raised |-> "",
                   object_labels |-> Some(ReconcileLabels(object_labels)),
                   attribute_labels |-> Some(ReconcileLabels(attribute_labels))]

---------------------------------------------------------------------------
(* etl/load_local.py: load_vp_files                                        *)
(* A sheet of the VP workbook is the sequence of its rows, row 1 first; a  *)
(* sheet row is a record from the sheet's column letters to the text of    *)
(* the cell ("" for a blank cell).                                         *)

IsDigit(c) == Ord("0") <= Ord(c) /\ Ord(c) <= Ord("9")

IsNumeral(text) ==
    /\ Len(text) > 0
    /\ \A i \in 1..Len(text) : IsDigit(CharAt(text, i))

RECURSIVE NumeralValue(_)
NumeralValue(text) ==
    IF Len(text) = 0 THEN 0
    ELSE 10 * NumeralValue(SubSeq(text, 1, Len(text) - 1))
         + (Ord(CharAt(text, Len(text))) - Ord("0"))

\* a variant of the coercion that reads a value that is no number as 0
to_numeric_zero(text) == IF IsNumeral(text) THEN Some(NumeralValue(text)) ELSE Some(0)

\* pd.to_numeric(column, errors="coerce") on one cell: a numeral parses to
\* its number, anything else (blank, other text) becomes NaN
to_numeric(text) == IF IsNumeral(text) THEN Some(NumeralValue(text)) ELSE Null

\* a cell of an object column as pandas holds it: a blank cell is NaN
Cell(text) == IF text = "" THEN Null ELSE Some(text)

\* pd.read_excel(path, sheet_name=...): row 1 of the sheet becomes the
\* column index, the frame's rows are sheet rows 2..N
read_excel(rows) == SubSeq(rows, 2, Len(rows))

\* df.columns = df.iloc[0]; df = df.iloc[1:].reset_index(drop=True)
\* iloc[0] raises IndexError on a frame without rows
PromoteRaises(frame) == Len(frame) = 0

PromotedHeader(frame) == frame[1]

PromotedRows(frame) == SubSeq(frame, 2, Len(frame))

\* the sheet columns whose promoted label is name
Labelled(header, name) == {c \in DOMAIN header : header[c] = name}

\* df[name] is one column exactly when one label equals name (KeyError
\* when none does; to_numeric rejects the frame that several give)
HasColumns(header, names) ==
    \A name \in names : Cardinality(Labelled(header, name)) = 1

Column(header, name) == CHOOSE c \in DOMAIN header : header[c] = name

EntityColumns == {"ID", "Model ID", "Diagram ID", "Parent ID", "Name", "Description"}

AttributeColumns ==
    {"ID", "Model ID", "Parent ID", "Name", "Description", "PrimaryKey", "Parent Name"}

RelationshipColumns == {"ID", "Table", "Reference", "Identifying"}

\* lines 25-39
LoadEntities(sheet) ==
    LET frame == read_excel(sheet)
        header == PromotedHeader(frame)
        rows == PromotedRows(frame)
    IN  [i \in 1..Len(rows) |->
            [ID |-> to_numeric(rows[i][Column(header, "ID")]),
             Name |-> Cell(rows[i][Column(header, "Name")]),
             Description |-> Cell(rows[i][Column(header, "Description")])]]

\* lines 42-55
LoadAttributes(sheet) ==
    LET frame == read_excel(sheet)
        header == PromotedHeader(frame)
        rows == PromotedRows(frame)
    IN  [i \in 1..Len(rows) |->
            [ID |-> to_numeric(rows[i][Column(header, "ID")]),
             Name |-> Cell(rows[i][Column(header, "Name")]),
             Description |-> Cell(rows[i][Column(header, "Description")]),
             PrimaryKey |-> Cell(rows[i][Column(header, "PrimaryKey")]),
             Parent_Name |-> Cell(rows[i][Column(header, "Parent Name")])]]

\* lines 58-71
LoadRelationships(sheet) ==
    LET frame == read_excel(sheet)
        header == PromotedHeader(frame)
        rows == PromotedRows(frame)
    IN  [i \in 1..Len(rows) |->
            [Table |-> to_numeric(rows[i][Column(header, "Table")]),
             Reference |-> to_numeric(rows[i][Column(header, "Reference")]),
             Identifying |-> Cell(rows[i][Column(header, "Identifying")])]]

\* what loading one sheet raises ("" when it loads): the sheet is Null
\* when the workbook has no sheet of that name
SheetRaises(sheet, columns) ==
    IF IsNull(sheet) THEN "ValueError: Worksheet not found"
    ELSE IF PromoteRaises(read_excel(Val(sheet)))
    THEN "IndexError: single positional indexer is out-of-bounds"
    ELSE IF ~HasColumns(PromotedHeader(read_excel(Val(sheet))), columns)
    THEN "KeyError: column"
    ELSE ""

\* load_vp_files(vp_file_path): the workbook is Null when it cannot be
\* opened
load_vp_files(workbook) ==
    LET none == [vp_entities |-> Null, vp_attributes |-> Null, vp_relationships |-> Null]
    IN  IF IsNull(workbook) THEN [raised |-> "FileNotFoundError"] @@ none
        ELSE LET book == Val(workbook) IN
             IF SheetRaises(book.Entity, EntityColumns) # ""
             THEN [raised |-> SheetRaises(book.Entity, EntityColumns)] @@ none
             ELSE IF SheetRaises(book.Column, AttributeColumns) # ""
             THEN [raised |-> SheetRaises(book.Column, AttributeColumns)] @@ none
             ELSE IF SheetRaises(book.Foreign_Key, RelationshipColumns) # ""
             THEN [raised |-> SheetRaises(book.Foreign_Key, RelationshipColumns)] @@ none
             ELSE [raised |-> "",
                   vp_entities |-> Some(LoadEntities(Val(book.Entity))),
                   vp_attributes |-> Some(LoadAttributes(Val(book.Column))),
                   vp_relationships |-> Some(LoadRelationships(Val(book.Foreign_Key)))]

---------------------------------------------------------------------------
(* etl/transformations.py                                                  *)

RECURSIVE LeftMerge(_, _, _, _, _)
\* pd.merge(left, right, left_on=lcol, right_on=rcol, how="left"): the left
\* rows in their order, each once per matching right row (in the right
\* table's order), or once with NaN in the right columns when none matches.
\* Keys match by value and a NaN key matches a NaN key.
LeftMerge(left, right, lcol, rcol, unmatched) ==
    IF left = <<>> THEN <<>>
    ELSE LET l == Head(left)
             Matches(r) == r[rcol] = l[lcol]
             found == SelectSeq(right, Matches)
             out == IF found = <<>> THEN <<l @@ unmatched>>
                    ELSE [i \in 1..Len(found) |-> l @@ found[i]]
         IN  out \o LeftMerge(Tail(left), right, lcol, rcol, unmatched)

\* a variant of fillna that leaves the column as it is
KeepNaN(c, value) == c

\* Series.fillna(value)
fillna(c, value) == IF IsNull(c) THEN Some(value) ELSE c

FirstEntityId == 1

FirstAttributeId == 10000

\* a variant of process_vp_entities that numbers the raw rows before the
\* label join, as process_vp_attributes numbers before its second join
process_vp_entities_numbered_first(entities, labels) ==
    LET numbered ==
            [i \in 1..Len(entities) |->
                [Entity_ID |-> FirstEntityId + i - 1] @@ entities[i]]
        merged_entities ==
            LeftMerge(numbered, labels, "Name", "key", [key |-> Null, System |-> Null])
    IN  [i \in 1..Len(merged_entities) |->
            [Entity_ID |-> merged_entities[i].Entity_ID,
             Entity_Name |-> merged_entities[i].Name,
             Entity_Description |-> merged_entities[i].Description,
             Entity_System |-> fillna(merged_entities[i].System, "entity missmatch")]]

\* a variant of process_vp_entities whose join emits the entities that have
\* a label before those that have none
process_vp_entities_matched_first(entities, labels) ==
    LET joined == LeftMerge(entities, labels, "Name", "key", [key |-> Null, System |-> Null])
        Matched(row) == ~IsNull(row.System)
        Unmatched(row) == IsNull(row.System)
        merged_entities == SelectSeq(joined, Matched) \o SelectSeq(joined, Unmatched)
    IN  [i \in 1..Len(merged_entities) |->
            [Entity_ID |-> FirstEntityId + i - 1,
             Entity_Name |-> merged_entities[i].Name,
             Entity_Description |-> merged_entities[i].Description,
             Entity_System |-> fillna(merged_entities[i].System, "entity missmatch")]]

\* a variant of process_vp_entities whose ids go on from where the preceding
\* run stopped, as a counter kept between the runs would make them
process_vp_entities_continued(entities, labels) ==
    LET merged_entities ==
            LeftMerge(entities, labels, "Name", "key", [key |-> Null, System |-> Null])
        used == IF IsNull(previous) \/ IsNull(Val(previous).vp_entities) THEN 0
                ELSE Len(Val(Val(previous).vp_entities))
    IN  [i \in 1..Len(merged_entities) |->
            [Entity_ID |-> FirstEntityId + used + i - 1,
             Entity_Name |-> merged_entities[i].Name,
             Entity_Description |-> merged_entities[i].Description,
             Entity_System |-> fillna(merged_entities[i].System, "entity missmatch")]]

\* process_vp_entities(vp_entities, central_doc_object_labels)
process_vp_entities(entities, labels) ==
    LET merged_entities ==
            LeftMerge(entities, labels, "Name", "key", [key |-> Null, System |-> Null])
    IN  [i \in 1..Len(merged_entities) |->
            [Entity_ID |-> FirstEntityId + i - 1,
             Entity_Name |-> merged_entities[i].Name,
             Entity_Description |-> merged_entities[i].Description,
             Entity_System |-> fillna(merged_entities[i].System, "entity missmatch")]]

\* lines 67-94 of process_vp_attributes: the label join, the sentinel, the
\* ids and the renames
NumberedAttributes(attributes, labels) ==
    LET merged_attributes ==
            LeftMerge(attributes, labels, "Name", "key", [key |-> Null, System |-> Null])
    IN  [i \in 1..Len(merged_attributes) |->
            [Attribute_ID |-> FirstAttributeId + i - 1,
             Attribute_Name |-> merged_attributes[i].Name,
             Attribute_Description |-> merged_attributes[i].Description,
             PrimaryKey |-> merged_attributes[i].PrimaryKey,
             Part_Of_Parent_Name |-> merged_attributes[i].Parent_Name,
             Attribute_System |-> fillna(merged_attributes[i].System, "attribute missmatch")]]

\* processed_entities[["Entity ID", "Entity Name"]]
EntityIdAndName(entities) ==
    [i \in 1..Len(entities) |->
        [Entity_ID |-> Some(entities[i].Entity_ID), Entity_Name |-> entities[i].Entity_Name]]

\* a variant of the owning-entity join that keeps only the attributes whose
\* parent name is the name of an entity (an inner join)
OwnedAttributesMatched(attributes, labels, entities) ==
    LET HasOwner(row) == ~IsNull(row.Entity_ID)
    IN  SelectSeq(LeftMerge(NumberedAttributes(attributes, labels),
                            EntityIdAndName(entities),
                            "Part_Of_Parent_Name", "Entity_Name",
                            [Entity_ID |-> Null, Entity_Name |-> Null]),
                  HasOwner)

\* lines 96-103 of process_vp_attributes: the owning-entity join
OwnedAttributes(attributes, labels, entities) ==
    LeftMerge(NumberedAttributes(attributes, labels), EntityIdAndName(entities),
              "Part_Of_Parent_Name", "Entity_Name",
              [Entity_ID |-> Null, Entity_Name |-> Null])

\* process_vp_attributes(vp_attributes, central_doc_attribute_labels, processed_entities)
process_vp_attributes(attributes, labels, entities) ==
    LET result == OwnedAttributes(attributes, labels, entities)
    IN  [i \in 1..Len(result) |->
            [Attribute_ID |-> result[i].Attribute_ID,
             Attribute_Name |-> result[i].Attribute_Name,
             Part_Of_Parent_ID |-> result[i].Entity_ID,
             Attribute_Description |-> result[i].Attribute_Description,
             PrimaryKey |-> result[i].PrimaryKey,
             Attribute_System |-> result[i].Attribute_System]]

\* vp_entities as the right side of the Table join, Name renamed
ChildSide(entities) ==
    [i \in 1..Len(entities) |->
        [ID_x |-> entities[i].ID, Entity_Child |-> entities[i].Name]]

\* vp_entities as the right side of the Reference join, Name renamed
ParentSide(entities) ==
    [i \in 1..Len(entities) |->
        [ID_y |-> entities[i].ID, Entity_Parent |-> entities[i].Name]]

\* lines 115-131 of process_vp_relationships: the two joins
reference_join(relationships, entities) ==
    LET table_join ==
            LeftMerge(relationships, ChildSide(entities), "Table", "ID_x",
                      [ID_x |-> Null, Entity_Child |-> Null])
    IN  LeftMerge(table_join, ParentSide(entities), "Reference", "ID_y",
                  [ID_y |-> Null, Entity_Parent |-> Null])

\* the order of sort_values on an object column: NaN after every text
SortsAfter(a, b) ==
    IF IsNull(b) THEN FALSE
    ELSE IF IsNull(a) THEN TRUE
    ELSE StrLess(Val(b), Val(a))

\* numpy sorts a run of at most this many elements by insertion
SMALL_QUICKSORT == 16

\* the comparison of the sort: the rows it sorts have a text in the column
LT(x, y) == StrLess(Val(x.Entity_Parent), Val(y.Entity_Parent))

Swap(a, i, j) == [a EXCEPT ![i] = a[j], ![j] = a[i]]

RECURSIVE ScanUp(_, _, _)
\* do ++pi; while (a[pi] < vp), entered with pi already advanced
ScanUp(a, pi, vp) == IF LT(a[pi], vp) THEN ScanUp(a, pi + 1, vp) ELSE pi

RECURSIVE ScanDown(_, _, _)
\* do --pj; while (vp < a[pj]), entered with pj already moved back
ScanDown(a, pj, vp) == IF LT(vp, a[pj]) THEN ScanDown(a, pj - 1, vp) ELSE pj

RECURSIVE PartitionLoop(_, _, _, _)
\* the exchange loop of one partition step
PartitionLoop(a, pi, pj, vp) ==
    LET i == ScanUp(a, pi + 1, vp)
        j == ScanDown(a, pj - 1, vp)
    IN  IF i >= j THEN [a |-> a, pi |-> i]
        ELSE PartitionLoop(Swap(a, i, j), i, j, vp)

\* one partition step of numpy's quicksort on a[pl..pr]: the median of the
\* first, middle and last element is the pivot, parked at pr - 1
Partition(a, pl, pr) ==
    LET pm == pl + ((pr - pl) \div 2)
        a1 == IF LT(a[pm], a[pl]) THEN Swap(a, pm, pl) ELSE a
        a2 == IF LT(a1[pr], a1[pm]) THEN Swap(a1, pr, pm) ELSE a1
        a3 == IF LT(a2[pm], a2[pl]) THEN Swap(a2, pm, pl) ELSE a2
        loop == PartitionLoop(Swap(a3, pm, pr - 1), pl, pr - 1, a3[pm])
    IN  [a |-> Swap(loop.a, loop.pi, pr - 1), pi |-> loop.pi]

\* one step of the insertion sort on a[pl..pr]: a[pi] moves in front of
\* the elements of a[pl..pi-1] that are greater
InsertAt(a, pl, pi) ==
    LET greater == {k \in pl..(pi - 1) : LT(a[pi], a[k])}
        at == IF greater = {} THEN pi ELSE CHOOSE k \in greater : \A g \in greater : k <= g
    IN  [k \in 1..Len(a) |->
            IF k < at \/ k > pi THEN a[k] ELSE IF k = at THEN a[pi] ELSE a[k - 1]]

RECURSIVE InsertionSort(_, _, _, _)
InsertionSort(a, pl, pr, pi) ==
    IF pi > pr THEN a ELSE InsertionSort(InsertAt(a, pl, pi), pl, pr, pi + 1)

RECURSIVE QuickSort(_, _, _)
\* numpy's quicksort (the default kind of sort_values) on a[pl..pr]:
\* partition while the run has more than SMALL_QUICKSORT + 1 elements, then
\* sort the run by insertion.  The switch to heapsort at the depth limit is
\* left out: no table of the model reaches that depth
QuickSort(a, pl, pr) ==
    IF pr - pl > SMALL_QUICKSORT
    THEN LET p == Partition(a, pl, pr)
         IN  QuickSort(QuickSort(p.a, pl, p.pi - 1), p.pi + 1, pr)
    ELSE InsertionSort(a, pl, pr, pl + 1)

\* result.sort_values("Entity Parent"): the rows with a text in the column
\* are sorted ascending by quicksort, the NaN rows follow in their order
sort_values(rows) ==
    LET Present(row) == ~IsNull(row.Entity_Parent)
        Missing(row) == IsNull(row.Entity_Parent)
        present == SelectSeq(rows, Present)
    IN  QuickSort(present, 1, Len(present)) \o SelectSeq(rows, Missing)

\* .replace("Yes", "Standard Entity").replace("No", "Reference Data Table")
ChildType(identifying) ==
    IF identifying = Some("Yes") THEN Some("Standard Entity")
    ELSE IF identifying = Some("No") THEN Some("Reference Data Table")
    ELSE identifying

\* a variant of the swap that exchanges the names only for the flag "No"
SwapRowOnNo(row) ==
    [Entity_Parent |-> IF row.Identifying = Some("No") THEN row.Entity_Child
                       ELSE row.Entity_Parent,
     Entity_Child |-> IF row.Identifying = Some("No") THEN row.Entity_Parent
                      ELSE row.Entity_Child,
     Entity_Child_Type |-> ChildType(row.Identifying)]

\* lines 146-154: the conditional parent/child swap of one row
SwapRow(row) ==
    [Entity_Parent |-> IF row.Identifying = Some("Yes") THEN row.Entity_Parent
                       ELSE row.Entity_Child,
     Entity_Child |-> IF row.Identifying = Some("Yes") THEN row.Entity_Child
                      ELSE row.Entity_Parent,
     Entity_Child_Type |-> ChildType(row.Identifying)]

\* lines 133-137: the joined rows in the order of the sort, with the
\* Table and Reference columns still attached
SortedJoin(relationships, entities) ==
    sort_values(reference_join(relationships, entities))

\* process_vp_relationships(vp_relationships, vp_entities)
process_vp_relationships(relationships, entities) ==
    LET result == SortedJoin(relationships, entities)
    IN  [i \in 1..Len(result) |-> SwapRow(result[i])]

---------------------------------------------------------------------------
(* app.py: load_and_process_data                                           *)

NoOutputs(message) ==
    [message |-> message,
     vp_entities |-> Null, vp_attributes |-> Null, vp_relationships |-> Null,
     central_doc_object_labels |-> Null, central_doc_attribute_labels |-> Null,
     diagram |-> Null, qa_checks |-> Null]

\* a variant of the except clause that returns the tables computed so far
ExceptReturnPartial(e) ==
    [NoOutputs("Error: " \o e) EXCEPT
        !.vp_entities = processed_entities,
        !.vp_attributes = processed_attributes,
        !.vp_relationships = processed_relationships,
        !.central_doc_object_labels = central_doc_object_labels,
        !.central_doc_attribute_labels = central_doc_attribute_labels]

\* lines 195-196: except Exception as e
ExceptReturn(e) == NoOutputs("Error: " \o e)

\* lines 185-194: the successful return
SuccessReturn ==
    [message |-> "Data loaded successfully",
     vp_entities |-> processed_entities,
     vp_attributes |-> processed_attributes,
     vp_relationships |-> processed_relationships,
     central_doc_object_labels |-> central_doc_object_labels,
     central_doc_attribute_labels |-> central_doc_attribute_labels,
     diagram |-> diagram,
     qa_checks |-> qa_checks]

Stages ==
    <<"load_vp_files", "load_central_doc", "process_vp_entities",
      "process_vp_attributes", "process_vp_relationships",
      "create_data_diagram", "create_qa_checks">>

\* a stage raised: the except clause returns at once
Fail(stage, e) ==
    /\ pc' = "done"
    /\ raised' = e
    /\ ran' = Append(ran, stage)
    /\ outputs' = Some(ExceptReturn(e))

\* a stage returned: control moves to the next statement
Pass(stage, next) ==
    /\ pc' = next
    /\ ran' = Append(ran, stage)
    /\ UNCHANGED <<raised, outputs>>

\* lines 151-158: the early returns of the callback
Enter ==
    /\ pc = "idle"
    /\ IF request.n_clicks = 0
       THEN /\ pc' = "done"
            /\ outputs' = Some(NoOutputs("Please select files and click 'Load Data'"))
       ELSE IF request.vp_file_path = "" \/ request.central_doc_path = ""
       THEN /\ pc' = "done"
            /\ outputs' = Some(NoOutputs("Please select both files"))
       ELSE /\ pc' = "load_vp_files"
            /\ UNCHANGED outputs
    /\ UNCHANGED <<pandas_apply_empty, previous, request, vp_file, central_file, vp_entities, vp_attributes,
                   vp_relationships, central_doc_object_labels,
                   central_doc_attribute_labels, processed_entities,
                   processed_attributes, processed_relationships, diagram,
                   qa_checks, raised, ran>>

\* line 168
CallLoadVpFiles ==
    /\ pc = "load_vp_files"
    /\ LET loaded == load_vp_files(vp_file)
       IN  \/ /\ loaded.raised # ""
              /\ Fail("load_vp_files", loaded.raised)
              /\ UNCHANGED <<vp_entities, vp_attributes, vp_relationships>>
           \/ /\ loaded.raised = ""
              /\ Pass("load_vp_files", "load_central_doc")
              /\ vp_entities' = loaded.vp_entities
              /\ vp_attributes' = loaded.vp_attributes
              /\ vp_relationships' = loaded.vp_relationships
    /\ UNCHANGED <<pandas_apply_empty, previous, request, vp_file, central_file, central_doc_object_labels,
                   central_doc_attribute_labels, processed_entities,
                   processed_attributes, processed_relationships, diagram,
                   qa_checks>>

\* lines 169-170
CallLoadCentralDoc ==
    /\ pc = "load_central_doc"
    /\ LET loaded == load_central_doc(central_file)
       IN  \/ /\ loaded.raised # ""
              /\ Fail("load_central_doc", loaded.raised)
              /\ UNCHANGED <<central_doc_object_labels, central_doc_attribute_labels>>
           \/ /\ loaded.raised = ""
              /\ Pass("load_central_doc", "process_vp_entities")
              /\ central_doc_object_labels' = loaded.object_labels
              /\ central_doc_attribute_labels' = loaded.attribute_labels
    /\ UNCHANGED <<pandas_apply_empty, previous, request, vp_file, central_file, vp_entities, vp_attributes,
                   vp_relationships, processed_entities, processed_attributes,
                   processed_relationships, diagram, qa_checks>>

\* a variant of the call that fills the sentinel into the label table it
\* was passed, as a fillna(inplace=True) on the caller's frame would
CallProcessVpEntitiesInPlace ==
    /\ pc = "process_vp_entities"
    /\ processed_entities' =
           Some(process_vp_entities(Val(vp_entities), Val(central_doc_object_labels)))
    /\ central_doc_object_labels' =
           Some([i \in 1..Len(Val(central_doc_object_labels)) |->
                    [Val(central_doc_object_labels)[i] EXCEPT
                        !.System = fillna(@, "entity missmatch")]])
    /\ Pass("process_vp_entities", "process_vp_attributes")
    /\ UNCHANGED <<pandas_apply_empty, previous, request, vp_file, central_file,
                   vp_entities, vp_attributes, vp_relationships,
                   central_doc_attribute_labels, processed_attributes,
                   processed_relationships, diagram, qa_checks>>

\* transformations.py line 18
CallProcessVpEntities ==
    /\ pc = "process_vp_entities"
    /\ processed_entities' =
           Some(process_vp_entities(Val(vp_entities), Val(central_doc_object_labels)))
    /\ Pass("process_vp_entities", "process_vp_attributes")
    /\ UNCHANGED <<pandas_apply_empty, previous, request, vp_file, central_file, vp_entities, vp_attributes,
                   vp_relationships, central_doc_object_labels,
                   central_doc_attribute_labels, processed_attributes,
                   processed_relationships, diagram, qa_checks>>

\* transformations.py line 21
CallProcessVpAttributes ==
    /\ pc = "process_vp_attributes"
    /\ processed_attributes' =
           Some(process_vp_attributes(Val(vp_attributes),
                                      Val(central_doc_attribute_labels),
                                      Val(processed_entities)))
    /\ Pass("process_vp_attributes", "process_vp_relationships")
    /\ UNCHANGED <<pandas_apply_empty, previous, request, vp_file, central_file, vp_entities, vp_attributes,
                   vp_relationships, central_doc_object_labels,
                   central_doc_attribute_labels, processed_entities,
                   processed_relationships, diagram, qa_checks>>

\* the releases of pandas differ in what DataFrame.apply(axis=1) returns
\* on a frame without rows: an empty Series or a copy of the frame
PandasBuilds == {"Series", "DataFrame"}

\* line 146 on a frame without rows: assigning the copy of the frame to
\* the one column "Entity Parent" raises ValueError
ApplyRaises(result) == result = <<>> /\ pandas_apply_empty = "DataFrame"

\* transformations.py lines 24-32
CallProcessVpRelationships ==
    /\ pc = "process_vp_relationships"
    /\ \/ /\ ~ApplyRaises(reference_join(Val(vp_relationships), Val(vp_entities)))
          /\ processed_relationships' =
                 Some(process_vp_relationships(Val(vp_relationships), Val(vp_entities)))
          /\ Pass("process_vp_relationships", "create_data_diagram")
       \/ /\ ApplyRaises(reference_join(Val(vp_relationships), Val(vp_entities)))
          /\ Fail("process_vp_relationships",
                  "ValueError: Cannot set a DataFrame with multiple columns to the single column Entity Parent")
          /\ UNCHANGED processed_relationships
    /\ UNCHANGED <<pandas_apply_empty, previous, request, vp_file, central_file, vp_entities, vp_attributes,
                   vp_relationships, central_doc_object_labels,
                   central_doc_attribute_labels, processed_entities,
                   processed_attributes, diagram, qa_checks>>

\* `name in G.nodes` and `name in entity_names`: a text is found by value.
\* NaN is unequal to itself, so a NaN name is found only when it is the very
\* object that was stored, which depends on how pandas built the two frames
Found(name, names, nan_is_same) ==
    IF IsNull(name) THEN Null \in names /\ nan_is_same ELSE name \in names

\* data_diagram.py lines 31-41: one node per Entity Name
DiagramNodes(entities) == {entities[i].Entity_Name : i \in 1..Len(entities)}

\* data_diagram.py lines 44-51: one edge per relationship whose two names
\* are nodes
DiagramEdges(relationships, entities, nan_is_same) ==
    {<<relationships[i].Entity_Parent, relationships[i].Entity_Child>> :
        i \in {j \in 1..Len(relationships) :
                  /\ Found(relationships[j].Entity_Parent, DiagramNodes(entities), nan_is_same)
                  /\ Found(relationships[j].Entity_Child, DiagramNodes(entities), nan_is_same)}}

\* create_data_diagram(results): the graph behind the component
create_data_diagram(relationships, entities, nan_is_same) ==
    [title |-> "Data Model Diagram",
     nodes |-> DiagramNodes(entities),
     edges |-> DiagramEdges(relationships, entities, nan_is_same)]

\* a variant of the check that looks the names up among the names that
\* carry a system label
create_relationship_checks_labelled(relationships, entities, nan_is_same) ==
    LET entity_names ==
            {entities[i].Entity_Name :
                i \in {j \in 1..Len(entities) :
                          entities[j].Entity_System # Some("entity missmatch")}}
    IN  [missing_parents |->
             {relationships[i].Entity_Parent :
                 i \in {j \in 1..Len(relationships) :
                           ~Found(relationships[j].Entity_Parent, entity_names, nan_is_same)}},
         missing_children |->
             {relationships[i].Entity_Child :
                 i \in {j \in 1..Len(relationships) :
                           ~Found(relationships[j].Entity_Child, entity_names, nan_is_same)}}]

\* qa_checks.py lines 104-116: the names of the relationships that are no
\* Entity Name
create_relationship_checks(relationships, entities, nan_is_same) ==
    LET entity_names == {entities[i].Entity_Name : i \in 1..Len(entities)}
    IN  [missing_parents |->
             {relationships[i].Entity_Parent :
                 i \in {j \in 1..Len(relationships) :
                           ~Found(relationships[j].Entity_Parent, entity_names, nan_is_same)}},
         missing_children |->
             {relationships[i].Entity_Child :
                 i \in {j \in 1..Len(relationships) :
                           ~Found(relationships[j].Entity_Child, entity_names, nan_is_same)}}]

\* create_qa_checks(results): the relationship check behind the component
create_qa_checks(relationships, entities, nan_is_same) ==
    [title |-> "Quality Assurance Checks"]
        @@ create_relationship_checks(relationships, entities, nan_is_same)

\* line 182: the rest of the diagram is built by networkx and plotly, which
\* may raise
CallCreateDataDiagram ==
    /\ pc = "create_data_diagram"
    /\ \/ /\ Fail("create_data_diagram", "Exception in create_data_diagram")
          /\ UNCHANGED diagram
       \/ /\ Pass("create_data_diagram", "create_qa_checks")
          /\ \E nan_is_same \in BOOLEAN :
                 diagram' = Some(create_data_diagram(Val(processed_relationships),
                                                     Val(processed_entities), nan_is_same))
    /\ UNCHANGED <<pandas_apply_empty, previous, request, vp_file, central_file, vp_entities, vp_attributes,
                   vp_relationships, central_doc_object_labels,
                   central_doc_attribute_labels, processed_entities,
                   processed_attributes, processed_relationships, qa_checks>>

\* line 183: the rest of the QA component is built by pandas, plotly and
\* dash, which may raise
CallCreateQaChecks ==
    /\ pc = "create_qa_checks"
    /\ \/ /\ Fail("create_qa_checks", "Exception in create_qa_checks")
          /\ UNCHANGED qa_checks
       \/ /\ Pass("create_qa_checks", "return")
          /\ \E nan_is_same \in BOOLEAN :
                 qa_checks' = Some(create_qa_checks(Val(processed_relationships),
                                                    Val(processed_entities), nan_is_same))
    /\ UNCHANGED <<pandas_apply_empty, previous, request, vp_file, central_file, vp_entities, vp_attributes,
                   vp_relationships, central_doc_object_labels,
                   central_doc_attribute_labels, processed_entities,
                   processed_attributes, processed_relationships, diagram>>

\* lines 185-194
Return ==
    /\ pc = "return"
    /\ pc' = "done"
    /\ outputs' = Some(SuccessReturn)
    /\ UNCHANGED <<pandas_apply_empty, previous, request, vp_file, central_file, vp_entities, vp_attributes,
                   vp_relationships, central_doc_object_labels,
                   central_doc_attribute_labels, processed_entities,
                   processed_attributes, processed_relationships, diagram,
                   qa_checks, raised, ran>>

---------------------------------------------------------------------------
(* Bounds and input universes                                              *)

MaxDocRows == 2

MaxEntities == 2

MaxAttributes == 2

MaxRelationships == 2

MaxLabels == 2

SeqsUpTo(S, n) == UNION {[1..k -> S] : k \in 0..n}

\* central-document sheets: any subset of the three columns, the cells of
\* an absent column read as NaN
DocObjectCells == {Null, Some("Wall"), Some("Door"), Some("skip-Wall")}

DocAttributeCells ==
    {Some("Height"), Some("skip-Height"), Some("Skip-Height"), Some(" skip-Height")}

DocSystemCells == {Null, Some("Revit"), Some("Maximo")}

DocColumns == {"BIM Object", "BIM Attribute", "Source System"}

DocRows(columns) ==
    [BIM_Object : IF "BIM Object" \in columns THEN DocObjectCells ELSE {Null},
     BIM_Attribute : IF "BIM Attribute" \in columns THEN DocAttributeCells ELSE {Null},
     Source_System : IF "Source System" \in columns THEN DocSystemCells ELSE {Null}]

CentralSheets ==
    UNION {[columns : {columns}, rows : SeqsUpTo(DocRows(columns), MaxDocRows)] :
              columns \in SUBSET DocColumns}

CentralFiles == {Null} \cup {Some(sheet) : sheet \in CentralSheets}

\* the VP workbook of the running example: a title row, the header row,
\* then the data
EntityHeader ==
    [A |-> "ID", B |-> "Name", C |-> "Description", D |-> "Model ID",
     E |-> "Diagram ID", F |-> "Parent ID"]

AttributeHeader ==
    [A |-> "ID", B |-> "Name", C |-> "Description", D |-> "PrimaryKey",
     E |-> "Parent Name", F |-> "Model ID", G |-> "Parent ID"]

RelationshipHeader ==
    [A |-> "ID", B |-> "Table", C |-> "Reference", D |-> "Identifying"]

Blank(header) == [c \in DOMAIN header |-> ""]

EntityRow(id, name, description) ==
    [A |-> id, B |-> name, C |-> description, D |-> "", E |-> "", F |-> ""]

AttributeRow(id, name, parent) ==
    [A |-> id, B |-> name, C |-> "", D |-> "Yes", E |-> parent, F |-> "", G |-> ""]

RelationshipRow(id, table, reference, identifying) ==
    [A |-> id, B |-> table, C |-> reference, D |-> identifying]

ExampleWorkbook ==
    [Entity |-> Some(<<Blank(EntityHeader), EntityHeader,
                       EntityRow("1", "Wall", "A wall"),
                       EntityRow("2", "Door", "A door")>>),
     Column |-> Some(<<Blank(AttributeHeader), AttributeHeader,
                       AttributeRow("7", "Height", "Wall")>>),
     Foreign_Key |-> Some(<<Blank(RelationshipHeader), RelationshipHeader,
                            RelationshipRow("9", "1", "2", "Yes")>>)]

ExampleRequest ==
    [n_clicks |-> 1, vp_file_path |-> "vp.xlsx", central_doc_path |-> "central.xlsx"]

---------------------------------------------------------------------------
(* load_central_doc on every central-document sheet within the bounds,     *)
(* called by the callback after the example workbook has loaded            *)

ExampleLoaded == load_vp_files(Some(ExampleWorkbook))

InitCentral ==
    /\ pc = "load_central_doc"
    /\ request = ExampleRequest
    /\ vp_file = Some(ExampleWorkbook)
    /\ central_file \in CentralFiles
    /\ vp_entities = ExampleLoaded.vp_entities
    /\ vp_attributes = ExampleLoaded.vp_attributes
    /\ vp_relationships = ExampleLoaded.vp_relationships
    /\ central_doc_object_labels = Null
    /\ central_doc_attribute_labels = Null
    /\ processed_entities = Null
    /\ processed_attributes = Null
    /\ processed_relationships = Null
    /\ diagram = Null
    /\ qa_checks = Null
    /\ outputs = Null
    /\ raised = ""
    /\ ran = <<"load_vp_files">>
    /\ pandas_apply_empty = "Series"
    /\ previous = Null

NextCentral == CallLoadCentralDoc

SpecCentral == InitCentral /\ [][NextCentral]_vars

---------------------------------------------------------------------------
(* process_data called on tables given directly: every raw entity table    *)
(* against every label table, every raw attribute table, and every raw     *)
(* relationship table, within the bounds                                   *)

RawEntityRows ==
    [ID : {Some(1)}, Name : {Null, Some("Wall"), Some("Door")},
     Description : {Null, Some("A wall")}]

LabelRows == [key : {Null, Some("Wall")}, System : {Null, Some("Revit")}]

RawAttributeRows ==
    [ID : {Some(7)}, Name : {Null, Some("Height")}, Description : {Null},
     PrimaryKey : {Some("Yes")}, Parent_Name : {Null, Some("Wall"), Some("Door")}]

RawRelationshipRows ==
    [Table : {Some(1), Some(2)}, Reference : {Some(1), Some(2)},
     Identifying : {Some("Yes"), Some("No")}]
    \cup [Table : {Null}, Reference : {Some(1)}, Identifying : {Some("Yes"), Some("No")}]
    \cup [Table : {Some(1)}, Reference : {Null}, Identifying : {Some("Yes"), Some("No")}]
    \cup [Table : {Some(1)}, Reference : {Some(2)}, Identifying : {Null, Some("Maybe")}]

\* a raw relationship table one row longer than the runs quicksort sorts
\* by insertion alone: every row references entity 2, the first half has
\* Table 1 and the second half Table 2
LongRelationships ==
    [i \in 1..(SMALL_QUICKSORT + 2) |->
        [Table |-> Some(IF 2 * i <= SMALL_QUICKSORT + 2 THEN 1 ELSE 2), Reference |-> Some(2),
         Identifying |-> Some("Yes")]]

Entity(id, name) == [ID |-> id, Name |-> name, Description |-> Null]

\* raw entity tables for the attribute and relationship runs: the example,
\* a repeated name, a repeated id, a NaN id, a NaN name, no entity
SomeEntityTables ==
    {<<Entity(Some(1), Some("Wall")), Entity(Some(2), Some("Door"))>>,
     <<Entity(Some(1), Some("Wall")), Entity(Some(2), Some("Wall"))>>,
     <<Entity(Some(1), Some("Wall")), Entity(Some(1), Some("Door"))>>,
     <<Entity(Null, Some("Wall")), Entity(Some(2), Some("Door"))>>,
     <<Entity(Some(1), Null), Entity(Some(2), Some("Door"))>>,
     <<>>}

Label(key, system) == [key |-> key, System |-> system]

ExampleObjectLabels == <<Label(Some("Door"), Some("Revit")), Label(Some("Wall"), Some("Revit"))>>

SomeAttributeLabels ==
    {<<Label(Some("Height"), Some("Revit, Maximo"))>>,
     <<Label(Some("Height"), Some("Revit")), Label(Some("Height"), Some("Maximo"))>>,
     <<>>}

InitProcCommon ==
    /\ pc = "process_vp_entities"
    /\ request = ExampleRequest
    /\ vp_file = Null
    /\ central_file = Null
    /\ processed_entities = Null
    /\ processed_attributes = Null
    /\ processed_relationships = Null
    /\ diagram = Null
    /\ qa_checks = Null
    /\ outputs = Null
    /\ raised = ""
    /\ ran = <<>>
    /\ previous = Null

InitProc ==
    /\ InitProcCommon
    /\ \/ /\ pandas_apply_empty = "Series"
          /\ vp_entities \in {Some(t) : t \in SeqsUpTo(RawEntityRows, MaxEntities)}
          /\ central_doc_object_labels \in {Some(t) : t \in SeqsUpTo(LabelRows, MaxLabels)}
          /\ vp_attributes = ExampleLoaded.vp_attributes
          /\ central_doc_attribute_labels = Some(<<>>)
          /\ vp_relationships = ExampleLoaded.vp_relationships
       \/ /\ pandas_apply_empty = "Series"
          /\ vp_entities \in {Some(t) : t \in SomeEntityTables}
          /\ central_doc_object_labels = Some(ExampleObjectLabels)
          /\ vp_attributes \in {Some(t) : t \in SeqsUpTo(RawAttributeRows, MaxAttributes)}
          /\ central_doc_attribute_labels \in {Some(t) : t \in SomeAttributeLabels}
          /\ vp_relationships = ExampleLoaded.vp_relationships
       \/ /\ pandas_apply_empty = "Series"
          /\ vp_entities \in {Some(t) : t \in SomeEntityTables}
          /\ central_doc_object_labels = Some(ExampleObjectLabels)
          /\ vp_attributes = ExampleLoaded.vp_attributes
          /\ central_doc_attribute_labels = Some(<<>>)
          /\ vp_relationships \in
                 {Some(t) : t \in SeqsUpTo(RawRelationshipRows, MaxRelationships)
                                     \cup {LongRelationships}}
       \/ /\ pandas_apply_empty = "DataFrame"
          /\ vp_entities \in {Some(t) : t \in SomeEntityTables}
          /\ central_doc_object_labels = Some(ExampleObjectLabels)
          /\ vp_attributes = ExampleLoaded.vp_attributes
          /\ central_doc_attribute_labels = Some(<<>>)
          /\ vp_relationships \in
                 {Some(t) : t \in SeqsUpTo(RawRelationshipRows, 1)
                                     \cup {LongRelationships}}

NextProc ==
    \/ CallProcessVpEntities
    \/ CallProcessVpAttributes
    \/ CallProcessVpRelationships

SpecProc == InitProc /\ [][NextProc]_vars

---------------------------------------------------------------------------
(* process_data and the two report components on every raw relationship    *)
(* table within the bounds, with a label for the entity Wall only          *)

InitReport ==
    /\ InitProcCommon
    /\ pandas_apply_empty = "Series"
    /\ vp_entities \in {Some(t) : t \in SomeEntityTables}
    /\ central_doc_object_labels = Some(<<Label(Some("Wall"), Some("Revit"))>>)
    /\ vp_attributes = ExampleLoaded.vp_attributes
    /\ central_doc_attribute_labels = Some(<<>>)
    /\ vp_relationships \in
           {Some(t) : t \in SeqsUpTo(RawRelationshipRows, MaxRelationships)}

NextReport ==
    \/ CallProcessVpEntities
    \/ CallProcessVpAttributes
    \/ CallProcessVpRelationships
    \/ CallCreateDataDiagram
    \/ CallCreateQaChecks
    \/ Return

SpecReport == InitReport /\ [][NextReport]_vars

---------------------------------------------------------------------------
(* The callback on workbooks and central documents within the bounds       *)

Workbook(entities, attributes, relationships) ==
    [Entity |-> Some(<<Blank(EntityHeader), EntityHeader>> \o entities),
     Column |-> Some(<<Blank(AttributeHeader), AttributeHeader>> \o attributes),
     Foreign_Key |-> Some(<<Blank(RelationshipHeader), RelationshipHeader>> \o relationships)]

ExampleEntityRows == <<EntityRow("1", "Wall", "A wall"), EntityRow("2", "Door", "A door")>>

ExampleAttributeRows == <<AttributeRow("7", "Height", "Wall")>>

ExampleRelationshipRows == <<RelationshipRow("9", "1", "2", "Yes")>>

SheetEntityRows ==
    {EntityRow(id, name, "A wall") : id \in {"1", "x"}, name \in {"Wall", "Roof"}}

SheetAttributeRows ==
    {AttributeRow("7", name, parent) : name \in {"Height", "Depth"}, parent \in {"Wall", "Roof"}}

SheetRelationshipRows ==
    {RelationshipRow("9", "1", reference, identifying) :
        reference \in {"2", "x"}, identifying \in {"Yes", "No", "Maybe", ""}}

\* workbooks that load: the entity sheet, the attribute sheet or the
\* relationship sheet ranges over the tables within the bounds
GoodWorkbooks ==
    {Workbook(e, ExampleAttributeRows, ExampleRelationshipRows) :
        e \in SeqsUpTo(SheetEntityRows, MaxEntities)}
    \cup {Workbook(e, a, ExampleRelationshipRows) :
            e \in {ExampleEntityRows,
                   <<EntityRow("1", "Wall", "A wall"), EntityRow("2", "Wall", "A wall")>>},
            a \in SeqsUpTo(SheetAttributeRows, MaxAttributes)}
    \cup {Workbook(ExampleEntityRows, ExampleAttributeRows, r) :
            r \in SeqsUpTo(SheetRelationshipRows, MaxRelationships)}

\* workbooks that do not load: a sheet is missing, a sheet has nothing
\* under its first row, or the header is in row 1 so that the first data
\* row is promoted in its place
BadWorkbooks ==
    {[ExampleWorkbook EXCEPT !.Entity = Null],
     [ExampleWorkbook EXCEPT !.Column = Null],
     [ExampleWorkbook EXCEPT !.Foreign_Key = Some(<<RelationshipHeader>>)],
     [ExampleWorkbook EXCEPT !.Entity = Some(<<EntityHeader>> \o ExampleEntityRows)],
     [Entity |-> Some(<<EntityHeader>> \o ExampleEntityRows),
      Column |-> Some(<<AttributeHeader>> \o ExampleAttributeRows),
      Foreign_Key |-> Some(<<RelationshipHeader>> \o ExampleRelationshipRows)]}

VpFiles == {Null} \cup {Some(w) : w \in GoodWorkbooks \cup BadWorkbooks}

DocRow(object, attribute, system) ==
    [BIM_Object |-> object, BIM_Attribute |-> attribute, Source_System |-> system]

SomeCentralFiles ==
    {Null,
     Some([columns |-> DocColumns,
           rows |-> <<DocRow(Some("Wall"), Some("Height"), Some("Revit")),
                      DocRow(Some("Door"), Some("Width"), Some("Revit")),
                      DocRow(Some("skip-temp"), Some("skip-temp"), Some("Y"))>>]),
     Some([columns |-> DocColumns,
           rows |-> <<DocRow(Some("Wall"), Some("Height"), Some("Maximo")),
                      DocRow(Some("Wall"), Some("Height"), Some("Revit"))>>]),
     Some([columns |-> DocColumns, rows |-> <<>>]),
     Some([columns |-> DocColumns,
           rows |-> <<DocRow(Some("Wall"), Some("Height"), Null)>>]),
     Some([columns |-> {"BIM Object", "Source System"},
           rows |-> <<DocRow(Some("Wall"), Null, Some("Revit"))>>])}

Requests ==
    [n_clicks : {0, 1}, vp_file_path : {"", "vp.xlsx"},
     central_doc_path : {"", "central.xlsx"}]

Init ==
    /\ pc = "idle"
    /\ \/ /\ request \in Requests
          /\ vp_file = Some(ExampleWorkbook)
          /\ central_file \in SomeCentralFiles
          /\ pandas_apply_empty = "Series"
       \/ /\ request = ExampleRequest
          /\ vp_file \in VpFiles
          /\ central_file \in SomeCentralFiles
          /\ pandas_apply_empty \in PandasBuilds
    /\ vp_entities = Null
    /\ vp_attributes = Null
    /\ vp_relationships = Null
    /\ central_doc_object_labels = Null
    /\ central_doc_attribute_labels = Null
    /\ processed_entities = Null
    /\ processed_attributes = Null
    /\ processed_relationships = Null
    /\ diagram = Null
    /\ qa_checks = Null
    /\ outputs = Null
    /\ raised = ""
    /\ ran = <<>>
    /\ previous = Null

Next ==
    \/ Enter
    \/ CallLoadVpFiles
    \/ CallLoadCentralDoc
    \/ CallProcessVpEntities
    \/ CallProcessVpAttributes
    \/ CallProcessVpRelationships
    \/ CallCreateDataDiagram
    \/ CallCreateQaChecks
    \/ Return

Spec == Init /\ [][Next]_vars

---------------------------------------------------------------------------
(* The callback run twice on the same files: the button is clicked again   *)
(* once the first run is over                                              *)

\* the five tables of the bundle as the run has computed them
Computed ==
    [vp_entities |-> processed_entities,
     vp_attributes |-> processed_attributes,
     vp_relationships |-> processed_relationships,
     central_doc_object_labels |-> central_doc_object_labels,
     central_doc_attribute_labels |-> central_doc_attribute_labels]

\* app.py lines 136-150: Dash calls load_and_process_data again with the
\* same arguments; the locals of the new call are fresh
Rerun ==
    /\ pc = "done"
    /\ IsNull(previous)
    /\ previous' = Some(Computed)
    /\ pc' = "idle"
    /\ vp_entities' = Null
    /\ vp_attributes' = Null
    /\ vp_relationships' = Null
    /\ central_doc_object_labels' = Null
    /\ central_doc_attribute_labels' = Null
    /\ processed_entities' = Null
    /\ processed_attributes' = Null
    /\ processed_relationships' = Null
    /\ diagram' = Null
    /\ qa_checks' = Null
    /\ outputs' = Null
    /\ raised' = ""
    /\ ran' = <<>>
    /\ UNCHANGED <<request, vp_file, central_file, pandas_apply_empty>>

NextRerun ==
    \/ Next
    \/ Rerun

SpecRerun == Init /\ [][NextRerun]_vars

---------------------------------------------------------------------------
(* Properties of load_central_doc                                          *)

\* load_central_doc has returned its two tables
CentralReturned ==
    /\ ~IsNull(central_doc_object_labels)
    /\ ~IsNull(central_doc_attribute_labels)

\* load_central_doc was called and is over (returned or raised)
CentralOver == "load_central_doc" \in Range(ran)

ObjectLabels == Val(central_doc_object_labels)

AttributeLabels == Val(central_doc_attribute_labels)

InputRows == Val(central_file).rows

ObjectKeysIn == {InputRows[i].BIM_Object : i \in 1..Len(InputRows)}

AttributeKeysIn == {InputRows[i].BIM_Attribute : i \in 1..Len(InputRows)}

KeysOf(labels) == {labels[i].key : i \in 1..Len(labels)}

\* the text of a key as the prefix test sees it
KeyText(k) == IF k = Null THEN "nan" ELSE k[1]

HasSkipPrefix(k) == Len(KeyText(k)) >= 4 /\ SubSeq(KeyText(k), 1, 4) = "skip"

\* C1: no key of either returned label table starts with "skip", and the
\* test is case-sensitive and untrimmed: the keys "Skip-Height" and
\* " skip-Height" of the input are kept.
C1_NoSkipKeys ==
    CentralReturned =>
        /\ \A k \in KeysOf(ObjectLabels) \cup KeysOf(AttributeLabels) : ~HasSkipPrefix(k)
        /\ \A k \in {Some("Skip-Height"), Some(" skip-Height")} :
               k \in AttributeKeysIn => k \in KeysOf(AttributeLabels)

C1_Witness ==
    /\ CentralReturned
    /\ Some("skip-Wall") \in ObjectKeysIn
    /\ Some("skip-Height") \in AttributeKeysIn
    /\ Some("Skip-Height") \in KeysOf(AttributeLabels)
    /\ Some("Wall") \in KeysOf(ObjectLabels)

RECURSIVE Split(_, _)
\* the pieces of text between the occurrences of sep
Split(text, sep) ==
    LET hits == {j \in 1..(Len(text) - Len(sep) + 1) :
                    SubSeq(text, j, j + Len(sep) - 1) = sep}
    IN  IF hits = {} THEN <<text>>
        ELSE LET j == CHOOSE h \in hits : \A g \in hits : h <= g
             IN  <<SubSeq(text, 1, j - 1)>>
                 \o Split(SubSeq(text, j + Len(sep), Len(text)), sep)

\* the index of the first input row carrying key k and system s in the
\* column keyed by Key
FirstRow(Key(_), k, s) ==
    CHOOSE i \in 1..Len(InputRows) :
        /\ Key(InputRows[i]) = k /\ InputRows[i].Source_System = Some(s)
        /\ \A j \in 1..(i - 1) :
               ~(Key(InputRows[j]) = k /\ InputRows[j].Source_System = Some(s))

\* the System text of one label row lists exactly the systems of the key's
\* input rows, once each, ordered by first occurrence
SystemsInOrder(Key(_), label) ==
    LET parts == Split(Val(label.System), ", ")
        systems == {InputRows[i].Source_System :
                       i \in {j \in 1..Len(InputRows) : Key(InputRows[j]) = label.key}}
    IN  /\ {Some(parts[i]) : i \in 1..Len(parts)} = systems
        /\ Cardinality(systems) = Len(parts)
        /\ \A i, j \in 1..Len(parts) :
               i < j => FirstRow(Key, label.key, parts[i]) < FirstRow(Key, label.key, parts[j])

ObjectKey(row) == row.BIM_Object

AttributeKey(row) == row.BIM_Attribute

Occurrences(labels, k) == Cardinality({i \in 1..Len(labels) : labels[i].key = k})

\* C3 as stated: every key of an input row that does not start with
\* "skip" is in the returned table exactly once, and no key is there twice.
C3_OneRowPerKey ==
    CentralReturned =>
        /\ \A k \in ObjectKeysIn : ~HasSkipPrefix(k) => Occurrences(ObjectLabels, k) = 1
        /\ \A k \in AttributeKeysIn : ~HasSkipPrefix(k) => Occurrences(AttributeLabels, k) = 1
        /\ \A k \in KeysOf(ObjectLabels) : Occurrences(ObjectLabels, k) = 1
        /\ \A k \in KeysOf(AttributeLabels) : Occurrences(AttributeLabels, k) = 1

\* C3 amended: every non-blank key of an input row that does not start
\* with "skip" is in the returned table exactly once, no key is there
\* twice, and the table has no other key (a blank key has no row).
C3_OneRowPerPresentKey ==
    CentralReturned =>
        /\ \A k \in ObjectKeysIn \ {Null} :
               ~HasSkipPrefix(k) => Occurrences(ObjectLabels, k) = 1
        /\ \A k \in AttributeKeysIn \ {Null} :
               ~HasSkipPrefix(k) => Occurrences(AttributeLabels, k) = 1
        /\ \A k \in KeysOf(ObjectLabels) :
               Occurrences(ObjectLabels, k) = 1 /\ k \in ObjectKeysIn \ {Null}
        /\ \A k \in KeysOf(AttributeLabels) :
               Occurrences(AttributeLabels, k) = 1 /\ k \in AttributeKeysIn \ {Null}

\* a key on several input rows
C3_Witness ==
    /\ CentralReturned
    /\ \E i, j \in 1..Len(InputRows) :
           i # j /\ InputRows[i].BIM_Object = Some("Wall") /\ InputRows[j].BIM_Object = Some("Wall")
    /\ Occurrences(ObjectLabels, Some("Wall")) = 1

RequiredColumns == {"BIM Object", "BIM Attribute", "Source System"}

\* C10: on a sheet that lacks a required column load_central_doc raises and
\* returns neither table, whichever column is absent.
C10_MissingColumnRaises ==
    (CentralOver /\ ~IsNull(central_file)
        /\ ~(RequiredColumns \subseteq Val(central_file).columns)) =>
        /\ raised # ""
        /\ IsNull(central_doc_object_labels)
        /\ IsNull(central_doc_attribute_labels)

\* a sheet that lacks only "BIM Attribute" and has object rows to reconcile
C10_Witness ==
    /\ CentralOver
    /\ ~IsNull(central_file)
    /\ Val(central_file).columns = {"BIM Object", "Source System"}
    /\ Len(InputRows) > 0
    /\ \A i \in 1..Len(InputRows) :
           InputRows[i].BIM_Object = Some("Wall") /\ InputRows[i].Source_System = Some("Revit")
    /\ raised # ""
    /\ IsNull(central_doc_object_labels)

---------------------------------------------------------------------------
(* Properties of the resolvers                                             *)

Entities == Val(processed_entities)

Attributes == Val(processed_attributes)

Relationships == Val(processed_relationships)

EntityIds == {Entities[i].Entity_ID : i \in 1..Len(Entities)}

\* C4: the Entity ID values of the table process_vp_entities returns are
\* pairwise distinct and are exactly 1..N for its N rows, row k carrying k.
C4_EntityIdsSequential ==
    ~IsNull(processed_entities) =>
        /\ EntityIds = 1..Len(Entities)
        /\ \A i, j \in 1..Len(Entities) :
               i # j => Entities[i].Entity_ID # Entities[j].Entity_ID
        /\ \A k \in 1..Len(Entities) : Entities[k].Entity_ID = k

\* a label table with a repeated key, so that the join returns more rows
\* than there are raw entities
C4_Witness ==
    /\ ~IsNull(processed_entities)
    /\ Len(Entities) > Len(Val(vp_entities))
    /\ Len(Val(vp_entities)) = MaxEntities

AttributeIds == {Attributes[i].Attribute_ID : i \in 1..Len(Attributes)}

\* C5: the Attribute ID values of the table process_vp_attributes returns
\* are pairwise distinct and are exactly 10000..10000+M-1 for its M rows,
\* also when two resolved entities share a name.
C5_AttributeIdsSequential ==
    ~IsNull(processed_attributes) =>
        /\ AttributeIds = 10000..(10000 + Len(Attributes) - 1)
        /\ \A i, j \in 1..Len(Attributes) :
               i # j => Attributes[i].Attribute_ID # Attributes[j].Attribute_ID

\* the rows of process_vp_relationships together with the joined rows they
\* were computed from
Joined == SortedJoin(Val(vp_relationships), Val(vp_entities))

RawEntities == Val(vp_entities)

\* name is what the left join on the raw entity ids gives for id: the Name
\* of a raw entity with that ID, or NaN when no raw entity has it
ResolvesTo(id, name) ==
    \/ \E i \in 1..Len(RawEntities) : RawEntities[i].ID = id /\ RawEntities[i].Name = name
    \/ /\ \A i \in 1..Len(RawEntities) : RawEntities[i].ID # id
       /\ name = Null

\* C7: with child_candidate the name resolved from Table and
\* parent_candidate the name resolved from Reference, both against the raw
\* entity ids, a row whose flag is exactly "Yes" has Entity Parent =
\* parent_candidate and Entity Child = child_candidate, and a row with any
\* other flag has them exchanged.
C7_SwapByIdentifying ==
    ~IsNull(processed_relationships) =>
        /\ Len(Relationships) = Len(Joined)
        /\ \A i \in 1..Len(Joined) :
               /\ ResolvesTo(Joined[i].Table, Joined[i].Entity_Child)
               /\ ResolvesTo(Joined[i].Reference, Joined[i].Entity_Parent)
               /\ Joined[i].Identifying = <<"Yes">> =>
                      /\ Relationships[i].Entity_Parent = Joined[i].Entity_Parent
                      /\ Relationships[i].Entity_Child = Joined[i].Entity_Child
               /\ Joined[i].Identifying # <<"Yes">> =>
                      /\ Relationships[i].Entity_Parent = Joined[i].Entity_Child
                      /\ Relationships[i].Entity_Child = Joined[i].Entity_Parent

\* a "Yes" row and a row with a flag that is neither "Yes" nor "No", both
\* with two different resolved names
C7_Witness ==
    /\ ~IsNull(processed_relationships)
    /\ \E i, j \in 1..Len(Joined) :
           /\ Joined[i].Identifying = <<"Yes">>
           /\ Joined[j].Identifying = <<"Maybe">>
           /\ Relationships[i].Entity_Parent = <<"Door">>
           /\ Relationships[i].Entity_Child = <<"Wall">>
           /\ Relationships[j].Entity_Parent = <<"Wall">>
           /\ Relationships[j].Entity_Child = <<"Door">>

\* C8: the Entity Child Type of every row process_vp_relationships returns
\* is "Standard Entity" when the flag is "Yes" and "Reference Data Table"
\* for every other flag, so always one of the two.
C8_ChildTypeOneOfTwo ==
    ~IsNull(processed_relationships) =>
        \A i \in 1..Len(Joined) :
            /\ Relationships[i].Entity_Child_Type
                   \in {<<"Standard Entity">>, <<"Reference Data Table">>}
            /\ Relationships[i].Entity_Child_Type = <<"Standard Entity">>
                   <=> Joined[i].Identifying = <<"Yes">>

\* the system a name must carry against a reconciled label table
Expected(labels, name, sentinel) ==
    IF name \in KeysOf(labels)
    THEN labels[CHOOSE i \in 1..Len(labels) : labels[i].key = name].System
    ELSE <<sentinel>>

\* C6: an entity row whose name is no key of the object-label table has
\* system "entity missmatch" and one whose name is a key has that key's
\* reconciled system string; likewise for attribute rows, the
\* attribute-label table and "attribute missmatch".
C6_SystemOrSentinel ==
    /\ ~IsNull(processed_entities) =>
           \A i \in 1..Len(Entities) :
               Entities[i].Entity_System
                   = Expected(ObjectLabels, Entities[i].Entity_Name, "entity missmatch")
    /\ ~IsNull(processed_attributes) =>
           \A i \in 1..Len(Attributes) :
               Attributes[i].Attribute_System
                   = Expected(AttributeLabels, Attributes[i].Attribute_Name, "attribute missmatch")

\* matched and unmatched rows in both tables
C6_Witness ==
    /\ ~IsNull(processed_attributes)
    /\ \E i, j \in 1..Len(Entities) :
           /\ Entities[i].Entity_System = <<"entity missmatch">>
           /\ Entities[j].Entity_System = <<"Maximo, Revit">>
    /\ \E i, j \in 1..Len(Attributes) :
           /\ Attributes[i].Attribute_System = <<"attribute missmatch">>
           /\ Attributes[j].Attribute_System = <<"Maximo, Revit">>

---------------------------------------------------------------------------
(* Properties of the callback                                              *)

Returned == Val(outputs)

\* which of the five table outputs are null
TablesNull ==
    {IsNull(Returned.vp_entities), IsNull(Returned.vp_attributes),
     IsNull(Returned.vp_relationships), IsNull(Returned.central_doc_object_labels),
     IsNull(Returned.central_doc_attribute_labels)}

\* which of the seven outputs besides the message are null
OutputsNull == TablesNull \cup {IsNull(Returned.diagram), IsNull(Returned.qa_checks)}

IsPrefix(a, b) == Len(a) <= Len(b) /\ a = SubSeq(b, 1, Len(a))

\* whether what the stage assigns is still unassigned
Unassigned(stage) ==
    CASE stage = "load_vp_files" ->
             IsNull(vp_entities) /\ IsNull(vp_attributes) /\ IsNull(vp_relationships)
      [] stage = "load_central_doc" ->
             IsNull(central_doc_object_labels) /\ IsNull(central_doc_attribute_labels)
      [] stage = "process_vp_entities" -> IsNull(processed_entities)
      [] stage = "process_vp_attributes" -> IsNull(processed_attributes)
      [] stage = "process_vp_relationships" -> IsNull(processed_relationships)
      [] stage = "create_data_diagram" -> IsNull(diagram)
      [] stage = "create_qa_checks" -> IsNull(qa_checks)

FailFast ==
    /\ IsPrefix(ran, Stages)
    /\ raised # "" =>
           /\ pc = "done"
           /\ ~IsNull(outputs)
           /\ OutputsNull = {TRUE}
           /\ StartsWith(Returned.message, "Error: ")
           /\ \A k \in Len(ran)..Len(Stages) : Unassigned(Stages[k])
    /\ (~IsNull(outputs) /\ TablesNull # {TRUE}) =>
           /\ raised = ""
           /\ ran = Stages
           /\ OutputsNull = {FALSE}

\* C9: when a stage raises no later stage runs and the callback returns an
\* error message with all five tables, the diagram and the QA component
\* null; tables are returned only when every stage succeeded.
C9_FailFast == []FailFast /\ [][raised # "" => UNCHANGED vars]_vars

\* the diagram construction raised after all five tables were computed
C9_Witness ==
    /\ raised # ""
    /\ ran[Len(ran)] = "create_data_diagram"
    /\ ~IsNull(processed_relationships)
    /\ Len(Val(processed_entities)) > 0
    /\ Returned.vp_entities = Null

\* C11 as stated: on a sheet that has the three required columns
\* load_central_doc raises nothing and returns both label tables, whatever
\* the rows hold, a blank Source System on a kept row included.
C11_NoOtherValidation ==
    (CentralOver /\ ~IsNull(central_file)
        /\ RequiredColumns \subseteq Val(central_file).columns) =>
        /\ raised = ""
        /\ CentralReturned

---------------------------------------------------------------------------
(* Properties of two runs on the same input                                *)

---------------------------------------------------------------------------
(* Properties of the owning-entity join                                    *)

\* the rows of process_vp_attributes with the declared parent name still
\* attached, row for row
Owned ==
    OwnedAttributes(Val(vp_attributes), Val(central_doc_attribute_labels),
                    Val(processed_entities))

\* the attributes as numbered before the owning-entity join
Numbered == NumberedAttributes(Val(vp_attributes), Val(central_doc_attribute_labels))

\* the resolved entities whose Entity Name is name (names compared as the
\* join compares them)
EntitiesNamed(name) == {e \in 1..Len(Entities) : Entities[e].Entity_Name = name}

\* C13: in every row process_vp_attributes returns, Part Of Parent ID is the
\* Entity ID of a resolved entity whose Entity Name is the attribute's
\* declared Parent Name, and it is null exactly when no resolved entity has
\* that name; every attribute is emitted, also with an unmatched parent name.
C13_OwnerResolvedByName ==
    ~IsNull(processed_attributes) =>
        /\ Len(Attributes) = Len(Owned)
        /\ \A i \in 1..Len(Attributes) :
               LET named == EntitiesNamed(Owned[i].Part_Of_Parent_Name)
               IN  /\ Owned[i].Attribute_ID = Attributes[i].Attribute_ID
                   /\ IsNull(Attributes[i].Part_Of_Parent_ID) <=> named = {}
                   /\ named # {} =>
                          \E e \in named :
                              Attributes[i].Part_Of_Parent_ID = Some(Entities[e].Entity_ID)
        /\ \A n \in 1..Len(Numbered) :
               \E i \in 1..Len(Attributes) :
                   /\ Attributes[i].Attribute_ID = Numbered[n].Attribute_ID
                   /\ Attributes[i].Attribute_Name = Numbered[n].Attribute_Name

\* one attribute owned by the entity Door (id 2) and one whose parent name
\* is no entity's name
C13_Witness ==
    /\ ~IsNull(processed_attributes)
    /\ Len(Attributes) = MaxAttributes
    /\ \E i, j \in 1..Len(Attributes) :
           /\ Owned[i].Part_Of_Parent_Name = Some("Door")
           /\ Attributes[i].Part_Of_Parent_ID = Some(2)
           /\ Owned[j].Part_Of_Parent_Name = Some("Wall")
           /\ Attributes[j].Part_Of_Parent_ID = Null

---------------------------------------------------------------------------
(* Properties of unmatched relationship ids                                *)

RawRelationships == Val(vp_relationships)

\* process_vp_relationships was called and is over (returned or raised)
RelationshipsOver == "process_vp_relationships" \in Range(ran)

\* the id is the ID of no raw entity; a null id is no entity's ID
EqualsNoEntityId(id) ==
    IsNull(id) \/ \A e \in 1..Len(RawEntities) : RawEntities[e].ID # id

\* C14 as stated: when the Table or Reference id of a relationship equals
\* no raw entity ID (a null id included) process_vp_relationships raises
\* nothing and keeps the row, the candidate name resolved from that id is
\* null, and the null comes out as Entity Child (Table, flag "Yes") or
\* Entity Parent (Table, other flag), and the other way round for Reference.
C14_UnmatchedIdGivesNull ==
    (RelationshipsOver
        /\ \E r \in 1..Len(RawRelationships) :
               EqualsNoEntityId(RawRelationships[r].Table)
               \/ EqualsNoEntityId(RawRelationships[r].Reference)) =>
        /\ raised = ""
        /\ ~IsNull(processed_relationships)
        /\ \A r \in 1..Len(RawRelationships) :
               \E i \in 1..Len(Joined) :
                   /\ Joined[i].Table = RawRelationships[r].Table
                   /\ Joined[i].Reference = RawRelationships[r].Reference
                   /\ Joined[i].Identifying = RawRelationships[r].Identifying
        /\ \A i \in 1..Len(Joined) :
               /\ EqualsNoEntityId(Joined[i].Table) =>
                      /\ IsNull(Joined[i].Entity_Child)
                      /\ IF Joined[i].Identifying = Some("Yes")
                         THEN IsNull(Relationships[i].Entity_Child)
                         ELSE IsNull(Relationships[i].Entity_Parent)
               /\ EqualsNoEntityId(Joined[i].Reference) =>
                      /\ IsNull(Joined[i].Entity_Parent)
                      /\ IF Joined[i].Identifying = Some("Yes")
                         THEN IsNull(Relationships[i].Entity_Parent)
                         ELSE IsNull(Relationships[i].Entity_Child)

---------------------------------------------------------------------------
(* Properties of load_vp_files                                             *)

\* load_vp_files was called and is over (returned or raised)
VpOver == "load_vp_files" \in Range(ran)

Book == Val(vp_file)

\* the sheet exists and its row 2 carries the column labels, as in the
\* exports the loader is written for (a title row above the header)
HeaderInRowTwo(sheet, header) ==
    ~IsNull(sheet) /\ Len(Val(sheet)) >= 2 /\ Val(sheet)[2] = header

\* the rows of the sheet under the header of row 2
RowsUnderRowTwo(sheet) == SubSeq(Val(sheet), 3, Len(Val(sheet)))

\* the cell as a number: null unless the text is a numeral
Coerced(text, c) ==
    IF IsNumeral(text) THEN c = Some(NumeralValue(text)) ELSE IsNull(c)

\* C15: a value of a numeric column (ID, Table, Reference) that is no
\* number becomes null, its row is kept with the other columns as they are
\* in the sheet, and load_vp_files returns its three tables without raising.
C15_CoercionNeverFails ==
    (VpOver /\ ~IsNull(vp_file)
        /\ HeaderInRowTwo(Book.Entity, EntityHeader)
        /\ HeaderInRowTwo(Book.Column, AttributeHeader)
        /\ HeaderInRowTwo(Book.Foreign_Key, RelationshipHeader)) =>
        /\ ~IsNull(vp_entities) /\ ~IsNull(vp_attributes) /\ ~IsNull(vp_relationships)
        /\ LET rows == RowsUnderRowTwo(Book.Entity)
               loaded == Val(vp_entities)
           IN  /\ Len(loaded) = Len(rows)
               /\ \A k \in 1..Len(rows) :
                      /\ Coerced(rows[k].A, loaded[k].ID)
                      /\ loaded[k].Name = Cell(rows[k].B)
                      /\ loaded[k].Description = Cell(rows[k].C)
        /\ LET rows == RowsUnderRowTwo(Book.Column)
               loaded == Val(vp_attributes)
           IN  /\ Len(loaded) = Len(rows)
               /\ \A k \in 1..Len(rows) :
                      /\ Coerced(rows[k].A, loaded[k].ID)
                      /\ loaded[k].Name = Cell(rows[k].B)
                      /\ loaded[k].Parent_Name = Cell(rows[k].E)
        /\ LET rows == RowsUnderRowTwo(Book.Foreign_Key)
               loaded == Val(vp_relationships)
           IN  /\ Len(loaded) = Len(rows)
               /\ \A k \in 1..Len(rows) :
                      /\ Coerced(rows[k].B, loaded[k].Table)
                      /\ Coerced(rows[k].C, loaded[k].Reference)
                      /\ loaded[k].Identifying = Cell(rows[k].D)

\* an entity row whose ID is "x" next to one whose ID is "1", both loaded
C15_Witness ==
    /\ VpOver
    /\ ~IsNull(vp_entities)
    /\ Len(Val(vp_entities)) = MaxEntities
    /\ \E i, j \in 1..Len(Val(vp_entities)) :
           /\ Val(Book.Entity)[i + 2].A = "x"
           /\ IsNull(Val(vp_entities)[i].ID)
           /\ Val(vp_entities)[i].Name = Some("Roof")
           /\ Val(vp_entities)[j].ID = Some(1)

---------------------------------------------------------------------------
(* Properties of the order of the relationship rows                        *)

\* the name resolved from Reference, read back from a returned row: the
\* swap left it in Entity Parent for the flag "Yes" and put it into Entity
\* Child for every other flag
ParentCandidate(row) ==
    IF row.Entity_Child_Type = Some("Standard Entity") THEN row.Entity_Parent
    ELSE row.Entity_Child

\* the rows process_vp_relationships would return without its sort: the
\* joined rows in the order of the raw relationship table
InRawOrder ==
    LET joined == reference_join(RawRelationships, RawEntities)
    IN  [i \in 1..Len(joined) |-> SwapRow(joined[i])]

\* the rows of a table whose parent_candidate is name, in the table's order
WithCandidate(rows, name) ==
    LET Has(row) == ParentCandidate(row) = name
    IN  SelectSeq(rows, Has)

\* C16 as stated: the returned rows are in ascending order of
\* parent_candidate with the null candidates last, and rows with the same
\* parent_candidate are in the order they have in the raw relationship table.
C16_StableSortByParent ==
    ~IsNull(processed_relationships) =>
        /\ \A i, j \in 1..Len(Relationships) :
               i < j => ~SortsAfter(ParentCandidate(Relationships[i]),
                                    ParentCandidate(Relationships[j]))
        /\ \A i \in 1..Len(Relationships) :
               LET name == ParentCandidate(Relationships[i])
               IN  WithCandidate(Relationships, name) = WithCandidate(InRawOrder, name)

\* C16 without the stability: the returned rows are those of the raw order,
\* in ascending order of parent_candidate with the null candidates last.
C16_SortedByParent ==
    ~IsNull(processed_relationships) =>
        /\ \A i, j \in 1..Len(Relationships) :
               i < j => ~SortsAfter(ParentCandidate(Relationships[i]),
                                    ParentCandidate(Relationships[j]))
        /\ Len(Relationships) = Len(InRawOrder)
        /\ \A i \in 1..Len(Relationships) :
               Cardinality({k \in 1..Len(Relationships) : Relationships[k] = Relationships[i]})
                   = Cardinality({k \in 1..Len(InRawOrder) : InRawOrder[k] = Relationships[i]})

\* the sheet exists and its row 1 carries the column labels
HeaderInRowOne(sheet, header) ==
    ~IsNull(sheet) /\ Len(Val(sheet)) >= 1 /\ Val(sheet)[1] = header

\* the rows of the sheet under the header of row 1
RowsUnderRowOne(sheet) == SubSeq(Val(sheet), 2, Len(Val(sheet)))

\* C17 as stated: from sheets whose row 1 is the header and whose rows 2..N
\* are data, load_vp_files returns one raw row per sheet row 2..N in sheet
\* order; row 1 gives the column names only and row 2 is not lost.
C17_HeaderRowOneKeepsData ==
    (VpOver /\ ~IsNull(vp_file)
        /\ HeaderInRowOne(Book.Entity, EntityHeader)
        /\ HeaderInRowOne(Book.Column, AttributeHeader)
        /\ HeaderInRowOne(Book.Foreign_Key, RelationshipHeader)) =>
        /\ ~IsNull(vp_entities) /\ ~IsNull(vp_attributes) /\ ~IsNull(vp_relationships)
        /\ LET rows == RowsUnderRowOne(Book.Entity)
               loaded == Val(vp_entities)
           IN  /\ Len(loaded) = Len(rows)
               /\ \A k \in 1..Len(rows) :
                      /\ Coerced(rows[k].A, loaded[k].ID)
                      /\ loaded[k].Name = Cell(rows[k].B)
        /\ LET rows == RowsUnderRowOne(Book.Column)
               loaded == Val(vp_attributes)
           IN  /\ Len(loaded) = Len(rows)
               /\ \A k \in 1..Len(rows) : loaded[k].Name = Cell(rows[k].B)
        /\ LET rows == RowsUnderRowOne(Book.Foreign_Key)
               loaded == Val(vp_relationships)
           IN  /\ Len(loaded) = Len(rows)
               /\ \A k \in 1..Len(rows) : loaded[k].Identifying = Cell(rows[k].D)

---------------------------------------------------------------------------
(* Properties of process_data as a whole                                   *)

\* the statements of process_data
ProcessStages == {"process_vp_entities", "process_vp_attributes", "process_vp_relationships"}

\* the five tables process_data is passed
Inputs ==
    <<vp_entities, vp_attributes, vp_relationships, central_doc_object_labels,
      central_doc_attribute_labels>>

\* a statement of process_data leaves the five tables as they are
InputsKept == pc \in ProcessStages => UNCHANGED Inputs

\* C18: no statement of process_data changes one of the five tables it is
\* passed; the bundle holds the two label tables themselves (lines 30-31),
\* so the label tables it returns are the ones passed in.
C18_InputsUntouched == [][InputsKept]_vars

\* process_data is over on two raw relationships that its sort has put in
\* another order
C18_Witness ==
    /\ pc = "create_data_diagram"
    /\ ~IsNull(processed_relationships)
    /\ Len(Relationships) = MaxRelationships
    /\ Relationships # InRawOrder
    /\ Len(RawRelationships) = MaxRelationships

\* no two rows of the label table carry the same key, as in every table
\* load_central_doc returns
KeysUnique(labels) ==
    \A i, j \in 1..Len(labels) : i # j => labels[i].key # labels[j].key

\* C19: against an object-label table with unique keys process_vp_entities
\* returns one row per raw entity in the raw order: row k has Entity ID k
\* and the name and description of the k-th raw entity.
C19_OneRowPerEntity ==
    (~IsNull(processed_entities) /\ KeysUnique(ObjectLabels)) =>
        /\ Len(Entities) = Len(RawEntities)
        /\ \A k \in 1..Len(Entities) :
               /\ Entities[k].Entity_ID = k
               /\ Entities[k].Entity_Name = RawEntities[k].Name
               /\ Entities[k].Entity_Description = RawEntities[k].Description

\* two raw entities, the first without a label and the second with one
C19_Witness ==
    /\ ~IsNull(processed_entities)
    /\ KeysUnique(ObjectLabels)
    /\ Len(RawEntities) = MaxEntities
    /\ Entities[1].Entity_System = Some("entity missmatch")
    /\ Entities[2].Entity_System = Some("Revit")
    /\ Entities[2].Entity_Name = Some("Wall")

---------------------------------------------------------------------------
(* Properties of the two reconciliations together                          *)

\* the label table lists the system under the key
Contributes(labels, k, system) ==
    \E i \in 1..Len(labels) :
        /\ labels[i].key = k
        /\ system \in {Some(part) : part \in Range(Split(Val(labels[i].System), ", "))}

\* the key is one the reconciliation keeps: not blank, no "skip" prefix
Kept(k) == ~IsNull(k) /\ ~HasSkipPrefix(k)

\* C20: the two reconciliations each start from the whole sheet: a row whose
\* BIM Object starts with "skip" still gives its Source System to the label
\* of its BIM Attribute, and a row whose BIM Attribute starts with "skip"
\* still gives it to the label of its BIM Object.
C20_ReconciliationsIndependent ==
    CentralReturned =>
        \A r \in 1..Len(InputRows) :
            /\ (HasSkipPrefix(InputRows[r].BIM_Object) /\ Kept(InputRows[r].BIM_Attribute)) =>
                   Contributes(AttributeLabels, InputRows[r].BIM_Attribute,
                               InputRows[r].Source_System)
            /\ (HasSkipPrefix(InputRows[r].BIM_Attribute) /\ Kept(InputRows[r].BIM_Object)) =>
                   Contributes(ObjectLabels, InputRows[r].BIM_Object,
                               InputRows[r].Source_System)

\* one row skipped as an object only and one skipped as an attribute only
C20_Witness ==
    /\ CentralReturned
    /\ \E r, q \in 1..Len(InputRows) :
           /\ InputRows[r].BIM_Object = Some("skip-Wall")
           /\ InputRows[r].BIM_Attribute = Some("Height")
           /\ InputRows[r].Source_System = Some("Revit")
           /\ InputRows[q].BIM_Object = Some("Wall")
           /\ InputRows[q].BIM_Attribute = Some("skip-Height")
           /\ InputRows[q].Source_System = Some("Maximo")
    /\ AttributeLabels = <<Label(Some("Height"), Some("Revit"))>>
    /\ ObjectLabels = <<Label(Some("Wall"), Some("Maximo"))>>

---------------------------------------------------------------------------
(* Properties of the names in the bundle                                   *)

\* the Entity Name column of the resolved entity table
EntityNames == {Entities[e].Entity_Name : e \in 1..Len(Entities)}

\* C21: every non-null Entity Parent and Entity Child of the relationship
\* table is the Entity Name of a resolved entity; so the QA check reports
\* nothing but null names as missing parents or children, and every
\* relationship that is no edge of the diagram has a null endpoint.
C21_NamesAreEntities ==
    /\ ~IsNull(processed_relationships) =>
           \A i \in 1..Len(Relationships) :
               /\ ~IsNull(Relationships[i].Entity_Parent) =>
                      Relationships[i].Entity_Parent \in EntityNames
               /\ ~IsNull(Relationships[i].Entity_Child) =>
                      Relationships[i].Entity_Child \in EntityNames
    /\ ~IsNull(qa_checks) =>
           /\ Val(qa_checks).missing_parents \subseteq {Null}
           /\ Val(qa_checks).missing_children \subseteq {Null}
    /\ ~IsNull(diagram) =>
           \A i \in 1..Len(Relationships) :
               <<Relationships[i].Entity_Parent, Relationships[i].Entity_Child>>
                       \notin Val(diagram).edges =>
                   \/ IsNull(Relationships[i].Entity_Parent)
                   \/ IsNull(Relationships[i].Entity_Child)

\* the callback has returned: one relationship from Door to Wall, Door
\* without a system label, is an edge, and one whose parent is null is
\* reported and is no edge
C21_Witness ==
    /\ pc = "done"
    /\ raised = ""
    /\ Len(Relationships) = MaxRelationships
    /\ \E e \in 1..Len(Entities) :
           /\ Entities[e].Entity_Name = Some("Door")
           /\ Entities[e].Entity_System = Some("entity missmatch")
    /\ Val(diagram).edges = {<<Some("Door"), Some("Wall")>>}
    /\ Val(qa_checks).missing_parents = {Null}
    /\ Val(qa_checks).missing_children = {}

====
